---------------------------- MODULE Spec2Model ----------------------------
(***************************************************************************)
(* Model of the Telegram sentiment bot (src/telegram_bot.py) with the      *)
(* parts of src/sentiment_analyzer.py and src/config.py it calls.          *)
(*                                                                         *)
(* Scores are integers in tenths (5.0 is 50); calendar dates are small     *)
(* integers; a timestamp is the sequence <<date, time>> and a "today"      *)
(* string is the one-element prefix <<date>>.                              *)
(*                                                                         *)
(* Three threads of control touch the state:                               *)
(*   - the event loop, handling one update at a time (h_pc),               *)
(*   - the scheduler thread started by schedule_daily_reports (r_pc),      *)
(*   - the main thread of run() (run_pc), which after the polling loop     *)
(*     drives save_current_data itself in a fresh loop.                    *)
(***************************************************************************)
EXTENDS Integers, Sequences, FiniteSets, TLC

VARIABLES
    target_chat_id,     \* SentimentBot.target_chat_id (= MONITOR_CHAT_ID)
    SENTIMENT_THRESHOLD_LOW,    \* config.SENTIMENT_THRESHOLD_LOW (environment)
    SENTIMENT_THRESHOLD_HIGH,   \* config.SENTIMENT_THRESHOLD_HIGH (environment)
    session_messages,   \* SentimentBot.session_messages: the in-memory buffer
    session_outliers,   \* SentimentBot.session_outliers
    is_running,         \* SentimentBot.is_running
    day_store,          \* date -> content of sentiment_data_<date>.json
    outlier_store,      \* content of outliers_<month>.json
    report_store,       \* date -> content of daily_report_<date>.json
    today,              \* the date datetime.now() gives
    run_pc,             \* position of run()
    h_pc,               \* position of handle_message / save_current_data
    update,             \* the update being handled (NoUpdate when none)
    existing_data,      \* save_current_data's local existing_data
    data_file,          \* save_current_data's local data_file (its date)
    r_pc,               \* position of the scheduler thread's run_report
    r_today,            \* generate_daily_report's local today
    next_id,            \* message_id the transport gives the next accepted message
    day_writes,         \* times a per-day store file was opened for writing
    last_save,          \* how the latest save_current_data call ended
    last_json,          \* how the latest _save_to_json call ended
    last_report         \* what the latest generate_daily_report call logged

vars == <<target_chat_id, SENTIMENT_THRESHOLD_LOW, SENTIMENT_THRESHOLD_HIGH,
          session_messages, session_outliers, is_running,
          day_store, outlier_store, report_store, today, run_pc, h_pc, update,
          existing_data, data_file, r_pc, r_today, next_id, day_writes,
          last_save, last_json, last_report>>

\* the configuration read once at import (config.py)
config == <<target_chat_id, SENTIMENT_THRESHOLD_LOW, SENTIMENT_THRESHOLD_HIGH>>

---------------------------------------------------------------------------
(* Bounds of the model *)

\* accepted messages of one long session
MaxMsgs == 11
\* cap on the session_outliers counter in a long session
MaxOutliers == 1
\* accepted messages of one short session (rich inputs)
MaxShort == 3
\* accepted messages of one session of the chat filter
MaxFilter == 2
\* accepted messages of one session over the classifier's outputs
MaxAnalyzed == 1
\* accepted messages of one session over the configured thresholds
MaxConfigured == 1
\* accepted messages of one session with failing classifier and stores
MaxFaulty == 11

(* Program constants *)

\* telegram_bot.py:158  len(self.session_messages) % 10
FlushEvery == 10
\* sentiment_analyzer.py:153  sentiment_score <= 3.5
NegativeCut == 35
\* sentiment_analyzer.py:155  sentiment_score >= 6.5
PositiveCut == 65
\* sentiment_analyzer.py:121,164  the neutral fallback score 5.0
NeutralScore == 50
\* config.py:28  the default "3.0" of SENTIMENT_THRESHOLD_LOW
DefaultThresholdLow == 30
\* config.py:29  the default "7.5" of SENTIMENT_THRESHOLD_HIGH
DefaultThresholdHigh == 75

---------------------------------------------------------------------------
(* Files *)

Absent  == [kind |-> "absent",  data |-> <<>>]
Blank   == [kind |-> "blank",   data |-> <<>>]
Corrupt == [kind |-> "corrupt", data |-> <<>>]
JsonList(s) == [kind |-> "list", data |-> s]

\* The JSON text of a value, by the key it is stored under: the keys of
\* message_data (lines 122-131) and of report (lines 220-233) fix the
\* Python type of each value. An int is written in digits, a float by
\* repr() with its decimals, a str in quotes, a dict as an object.
IntKeys == {"message_id", "chat_id", "total_messages", "outliers_count"}
FloatKeys == {"sentiment_score", "top_positive", "top_negative"}

\* a json.dumps that would write a float without its decimals
DumpValueTruncating(key, v) ==
    IF key \in IntKeys \cup FloatKeys THEN <<"int", v \div 10>>
    ELSE <<"str", v>>

\* json.dumps of one value
DumpValue(key, v) ==
    CASE key \in IntKeys -> <<"int", v>>
      [] key \in FloatKeys -> <<"float", v \div 10, v % 10>>
      [] key = "average_sentiment" -> <<"float", v \div 100, v % 100>>
      [] key = "sentiment_distribution" -> <<"object", v>>
      [] OTHER -> <<"str", v>>

\* json.loads of one value
LoadValue(key, t) ==
    CASE t[1] = "int" -> t[2]
      [] t[1] = "float" ->
            IF key = "average_sentiment" THEN 100 * t[2] + t[3]
            ELSE 10 * t[2] + t[3]
      [] OTHER -> t[2]

\* json.dumps(data) / json.dump(data, f) of a list of dicts
JsonDumps(data) ==
    [i \in DOMAIN data |-> [key \in DOMAIN data[i] |-> DumpValue(key, data[i][key])]]

\* json.loads(content) / json.load(f) of such a text
JsonLoads(content) ==
    [i \in DOMAIN content |->
        [key \in DOMAIN content[i] |-> LoadValue(key, content[i][key])]]

\* the file after data was written to it: a file is kept as what
\* json.load reads from its text
Written(data) == JsonList(JsonLoads(JsonDumps(data)))

\* json.loads / json.load of a file's content: the list, or a JSONDecodeError
ParseFails(f) == f.kind \in {"blank", "corrupt"}

\* save_current_data lines 179-183: json.loads raises on invalid JSON
\* (a blank file is skipped by content.strip() and never parsed)
SaveReadRaises(f) == f.kind = "corrupt"

\* save_current_data lines 178-183: existing_data when nothing raises
SaveReadData(f) == IF f.kind = "list" THEN f.data ELSE <<>>

\* _save_to_json lines 320-326: existing_data (JSONDecodeError gives [])
JsonReadResult(f) ==
    IF f.kind = "absent" THEN <<>>
    ELSE IF ParseFails(f) THEN <<>>
    ELSE f.data

\* A file opened with mode 'w' whose write then raised: it was truncated,
\* and holds nothing ("write_fails") or a cut-off text ("write_cut")
FailedWrite(io) == IF io = "write_fails" THEN Blank ELSE Corrupt

\* a _save_to_json that would not read the existing file
SaveToJsonOverwriting(f, data, io) ==
    CASE io = "ok"          -> Written(<<data>>)
      [] io = "mkdir_fails" -> f
      [] io = "open_fails"  -> f
      [] OTHER              -> FailedWrite(io)

\* _save_to_json lines 313-336: the file after the call; io is how the
\* file system answers: "ok", "mkdir_fails" (_ensure_log_directory raises
\* at line 315, before the try), "open_fails" (nothing changed), or
\* "write_fails" / "write_cut"
SaveToJson(f, data, io) ==
    CASE io = "ok"          -> Written(Append(JsonReadResult(f), data))
      [] io = "mkdir_fails" -> f
      [] io = "open_fails"  -> f
      [] OTHER              -> FailedWrite(io)

\* how a _save_to_json call ends: it returns, it catches and logs an error
\* (lines 335-336), or the exception of line 315 goes to the caller
JsonOutcome(io) ==
    IF io = "ok" THEN "ok"
    ELSE IF io = "mkdir_fails" THEN "raised"
    ELSE "error"

---------------------------------------------------------------------------
(* Sentiment analyzer *)

\* a label that would follow the configured outlier thresholds
LabelByThresholds(score) ==
    IF score <= SENTIMENT_THRESHOLD_LOW THEN "NEGATIVE"
    ELSE IF score >= SENTIMENT_THRESHOLD_HIGH THEN "POSITIVE"
    ELSE "NEUTRAL"

\* analyze_sentiment lines 152-158: label from the final score
Label(score) ==
    IF score <= NegativeCut THEN "NEGATIVE"
    ELSE IF score >= PositiveCut THEN "POSITIVE"
    ELSE "NEUTRAL"

\* max() and min() of two numbers
Max2(a, b) == IF a >= b THEN a ELSE b
Min2(a, b) == IF a <= b THEN a ELSE b

\* no clamping at all
ClampNothing(x) == x

\* _convert_to_scale line 107 and 111: max(1.0, min(10.0, x)), x in 1/10000
Clamp(x) == Max2(10000, Min2(100000, x))

\* _convert_to_scale line 113: round(x, 1) of x in 1/10000, the result in
\* tenths. A decimal x.x5 is in general no binary float, so which
\* neighbour a tie goes to depends on the float's error: tie is "down" or
\* "up".
RoundTenth(x, tie) ==
    LET q == x \div 1000
        r == x % 1000
    IN  IF r < 500 THEN q
        ELSE IF r > 500 THEN q + 1
        ELSE IF tie = "up" THEN q + 1 ELSE q

\* a base score that would take the neutral branch of lines 96-104 for
\* every polarity
BaseScoreNeutralBranch(probabilities) ==
    LET polarity   == probabilities.LABEL_2 - probabilities.LABEL_0
        confidence == Max2(probabilities.LABEL_0,
                           Max2(probabilities.LABEL_1, probabilities.LABEL_2))
    IN  IF confidence > 80 THEN 50000
        ELSE 50000 + polarity * 80 + (50 - confidence) * 60

\* a base score whose confidence tests would be >= instead of >
BaseScoreInclusiveBands(probabilities) ==
    LET polarity   == probabilities.LABEL_2 - probabilities.LABEL_0
        confidence == Max2(probabilities.LABEL_0,
                           Max2(probabilities.LABEL_1, probabilities.LABEL_2))
    IN  IF polarity < -10
        THEN IF confidence >= 90 THEN 10000 + (polarity + 100) * 150
             ELSE IF confidence >= 70 THEN 15000 + (polarity + 100) * 150
             ELSE 25000 + (polarity + 100) * 100
        ELSE IF polarity > 10
        THEN IF confidence >= 90 THEN 85000 + polarity * 150
             ELSE IF confidence >= 70 THEN 70000 + polarity * 150
             ELSE 65000 + polarity * 50
        ELSE IF confidence >= 80 THEN 50000
             ELSE 50000 + polarity * 80 + (50 - confidence) * 60

\* a base score without the override of lines 101-102
BaseScoreNoOverride(probabilities) ==
    LET polarity   == probabilities.LABEL_2 - probabilities.LABEL_0
        confidence == Max2(probabilities.LABEL_0,
                           Max2(probabilities.LABEL_1, probabilities.LABEL_2))
    IN  IF polarity < -10
        THEN IF confidence > 90 THEN 10000 + (polarity + 100) * 150
             ELSE IF confidence > 70 THEN 15000 + (polarity + 100) * 150
             ELSE 25000 + (polarity + 100) * 100
        ELSE IF polarity > 10
        THEN IF confidence > 90 THEN 85000 + polarity * 150
             ELSE IF confidence > 70 THEN 70000 + polarity * 150
             ELSE 65000 + polarity * 50
        ELSE 50000 + polarity * 80 + (50 - confidence) * 60

\* _convert_to_scale lines 71-104: base_score in 1/10000 from the three
\* probabilities in percent (a record with fields LABEL_0, LABEL_1, LABEL_2)
BaseScore(probabilities) ==
    LET negative_prob == probabilities.LABEL_0
        neutral_prob  == probabilities.LABEL_1
        positive_prob == probabilities.LABEL_2
        polarity   == positive_prob - negative_prob
        confidence == Max2(negative_prob, Max2(neutral_prob, positive_prob))
    IN  IF polarity < -10
        THEN IF confidence > 90 THEN 10000 + (polarity + 100) * 150
             ELSE IF confidence > 70 THEN 15000 + (polarity + 100) * 150
             ELSE 25000 + (polarity + 100) * 100
        ELSE IF polarity > 10
        THEN IF confidence > 90 THEN 85000 + polarity * 150
             ELSE IF confidence > 70 THEN 70000 + polarity * 150
             ELSE 65000 + polarity * 50
        ELSE IF confidence > 80 THEN 50000
             ELSE 50000 + polarity * 80 + (50 - confidence) * 60

\* a conversion whose jitter would be four times as wide
ConvertToScaleWideJitter(probabilities, variation, tie) ==
    RoundTenth(Clamp(Clamp(BaseScore(probabilities)) + 4 * variation), tie)

\* _convert_to_scale lines 65-113: the score in tenths; variation is what
\* np.random.uniform(-0.05, 0.05) gives, in 1/10000
ConvertToScale(probabilities, variation, tie) ==
    RoundTenth(Clamp(Clamp(BaseScore(probabilities)) + variation), tie)

\* What the classifier pipeline (tokenizer, model, _convert_to_scale) gives
\* on a text: it raises, or the model gives probabilities and
\* _convert_to_scale a score. Scored(s) stands for any probabilities and
\* variation that _convert_to_scale turns into s.
Raises == [ok |-> FALSE, score |-> 0]
Scored(s) == [ok |-> TRUE, score |-> s]
Classified(probabilities, variation, tie) ==
    [ok |-> TRUE, probabilities |-> probabilities, variation |-> variation,
     tie |-> tie]

\* analyze_sentiment line 150: sentiment_score
SentimentScore(cls) ==
    IF "score" \in DOMAIN cls THEN cls.score
    ELSE ConvertToScale(cls.probabilities, cls.variation, cls.tie)

\* an analyze_sentiment without the fallback of lines 162-164
AnalyzeSentimentNoFallback(text, cls) ==
    IF text = "blank" THEN <<NeutralScore, "NEUTRAL">>
    ELSE <<SentimentScore(cls), Label(SentimentScore(cls))>>

\* an analyze_sentiment without the blank test of lines 120-121
AnalyzeSentimentNoBlankTest(text, cls) ==
    IF ~cls.ok THEN <<NeutralScore, "NEUTRAL">>
    ELSE <<SentimentScore(cls), Label(SentimentScore(cls))>>

\* analyze_sentiment lines 115-164: text is "blank" (empty or whitespace)
\* or "words"; cls is what the classifier pipeline gives on it
AnalyzeSentiment(text, cls) ==
    IF text = "blank" THEN <<NeutralScore, "NEUTRAL">>
    ELSE IF ~cls.ok THEN <<NeutralScore, "NEUTRAL">>
    ELSE <<SentimentScore(cls), Label(SentimentScore(cls))>>

\* an outlier test with exclusive boundaries
IsOutlierStrict(score, low, high) == score < low \/ score > high

\* is_outlier lines 166-168
IsOutlier(score, low, high) == score <= low \/ score >= high

---------------------------------------------------------------------------
(* Updates *)

\* Update.message: text "none" stands for no message or no text; this is
\* the handler's argument before the first update
NoUpdate == [text |-> "none", chat_id |-> 0, date |-> 0, cls |-> Raises]

\* message.date.isoformat(): the date and then the time of day
IsoFormat(date) == <<date, "T">>

\* datetime.now().strftime("%Y-%m-%d")
TodayString(date) == <<date>>

\* str.startswith
StartsWith(s, prefix) ==
    /\ Len(s) >= Len(prefix)
    /\ SubSeq(s, 1, Len(prefix)) = prefix

\* a filter that would test the text only
IgnoredTextOnly(u, target) == u.text = "none"

\* handle_message lines 105-111: the message is ignored
Ignored(u, target) ==
    \/ u.text = "none"
    \/ (target # 0 /\ u.chat_id # target)

\* handle_message lines 122-131: message_data
MessageData(u, id, result) ==
    [message_id |-> id, chat_id |-> u.chat_id, timestamp |-> IsoFormat(u.date),
     sentiment_score |-> result[1], sentiment_label |-> result[2]]

\* a flush test that would fire one record late
AfterRecordLate(buffer) ==
    IF Len(buffer) % (FlushEvery + 1) = 0 THEN "save_read" ELSE "idle"

\* handle_message lines 157-159: where the handler goes after the record
AfterRecord(buffer) ==
    IF Len(buffer) % FlushEvery = 0 THEN "save_read" ELSE "idle"

---------------------------------------------------------------------------
(* Initial states *)

FileKinds == {Absent, Blank, Corrupt,
              JsonList(<<[message_id |-> 0, chat_id |-> 1,
                          timestamp |-> IsoFormat(1), sentiment_score |-> 20,
                          sentiment_label |-> "NEGATIVE"]>>)}

Dates == {1, 2}

InitConfigured(targets, kinds, lows, highs) ==
    /\ target_chat_id \in targets
    /\ SENTIMENT_THRESHOLD_LOW \in lows
    /\ SENTIMENT_THRESHOLD_HIGH \in highs
    /\ session_messages = <<>>
    /\ session_outliers = 0
    /\ is_running = FALSE
    /\ \E d \in kinds, o \in kinds, r \in kinds :
          /\ Cardinality({x \in 1..3 : <<d, o, r>>[x] # Absent}) <= 1
          /\ day_store = [x \in Dates |-> IF x = 1 THEN d ELSE Absent]
          /\ outlier_store = o
          /\ report_store = [x \in Dates |-> IF x = 1 THEN r ELSE Absent]
    /\ today = 1
    /\ run_pc = "init"
    /\ h_pc = "idle"
    /\ update = NoUpdate
    /\ existing_data = <<>>
    /\ data_file = 1
    /\ r_pc = "idle"
    /\ r_today = <<>>
    /\ next_id = 1
    /\ day_writes = 0
    /\ last_save = "none"
    /\ last_json = "none"
    /\ last_report = "none"

\* the thresholds left at their defaults
InitWith(targets, kinds) ==
    InitConfigured(targets, kinds, {DefaultThresholdLow}, {DefaultThresholdHigh})

---------------------------------------------------------------------------
(* run(): start and stop *)

\* run() lines 261-273: initialize() succeeds (the scheduler thread starts
\* and polling begins) or fails (return, through the finally block)
Start(ok) ==
    /\ run_pc = "init"
    /\ IF ok
       THEN /\ is_running' = TRUE
            /\ run_pc' = "polling"
       ELSE /\ is_running' = FALSE
            /\ run_pc' = "returned"
    /\ UNCHANGED <<config, last_report, session_messages, session_outliers,
                   day_store, outlier_store, report_store, today, h_pc, update,
                   existing_data, data_file, r_pc, r_today, next_id,
                   day_writes, last_save, last_json>>

\* run() lines 298-309: the polling loop is left (stop, KeyboardInterrupt or
\* a caught exception); the finally block flushes what is buffered
Stop ==
    /\ run_pc = "polling"
    /\ h_pc = "idle"
    /\ is_running' = FALSE
    /\ IF session_messages # <<>>
       THEN /\ run_pc' = "finally"
            /\ h_pc' = "save_read"
       ELSE /\ run_pc' = "returned"
            /\ h_pc' = h_pc
    /\ UNCHANGED <<config, last_report, session_messages, session_outliers,
                   day_store, outlier_store, report_store, today, update,
                   existing_data, data_file, r_pc, r_today, next_id,
                   day_writes, last_save, last_json>>

\* a save_current_data whose return would end run()
SaveEndsRun ==
    /\ h_pc' = "idle"
    /\ run_pc' = "returned"

\* where control goes when save_current_data returns: back to the event
\* loop, or, called from run()'s finally block, out of run()
SaveReturns ==
    /\ h_pc' = "idle"
    /\ run_pc' = IF run_pc = "finally" THEN "returned" ELSE run_pc

---------------------------------------------------------------------------
(* handle_message *)

\* handle_message lines 105-116: the transport hands update u to the
\* handler; an ignored update returns at once, another goes on to the
\* classifier. limit and cap bound the session's accepted messages and
\* its outlier counter.
HandleMessage(u, limit, cap) ==
    /\ run_pc = "polling"
    /\ h_pc = "idle"
    /\ update' = u
    /\ IF Ignored(u, target_chat_id)
       THEN h_pc' = "idle"
       ELSE /\ next_id <= limit
            /\ IsOutlier(AnalyzeSentiment(u.text, u.cls)[1],
                         SENTIMENT_THRESHOLD_LOW, SENTIMENT_THRESHOLD_HIGH)
                  => session_outliers < cap
            /\ h_pc' = "infer"
    /\ UNCHANGED <<config, last_report, session_messages, session_outliers,
                   is_running, day_store, outlier_store, report_store, today,
                   run_pc, existing_data, data_file, r_pc, r_today, next_id,
                   day_writes, last_save, last_json>>

\* handle_message lines 119-147 (and 155-159 when the score is no outlier):
\* analyze_sentiment is called on the event loop's thread, the record is
\* appended, the outlier test is made
Analyze ==
    /\ h_pc = "infer"
    /\ LET result == AnalyzeSentiment(update.text, update.cls)
           message_data == MessageData(update, next_id, result)
           buffer == Append(session_messages, message_data)
       IN  /\ session_messages' = buffer
           /\ next_id' = next_id + 1
           /\ IF IsOutlier(result[1], SENTIMENT_THRESHOLD_LOW,
                           SENTIMENT_THRESHOLD_HIGH)
              THEN /\ session_outliers' = session_outliers + 1
                   /\ h_pc' = "outlier"
              ELSE /\ session_outliers' = session_outliers
                   /\ h_pc' = AfterRecord(buffer)
    /\ UNCHANGED <<config, last_report, is_running, day_store, outlier_store,
                   report_store, today, run_pc, update, existing_data,
                   data_file, r_pc, r_today, day_writes, last_save, last_json>>

\* handle_message lines 150-162: the outlier's record goes to the outlier
\* store through _save_to_json, then the flush test is made; an exception
\* out of _save_to_json is caught at line 161 and the handler returns
SaveOutlier(io) ==
    /\ h_pc = "outlier"
    /\ LET message_data == session_messages[Len(session_messages)]
       IN  outlier_store' = SaveToJson(outlier_store, message_data, io)
    /\ last_json' = JsonOutcome(io)
    /\ h_pc' = IF JsonOutcome(io) = "raised" THEN "idle"
               ELSE AfterRecord(session_messages)
    /\ UNCHANGED <<config, last_report, session_messages, session_outliers,
                   is_running, day_store, report_store, today, run_pc, update,
                   existing_data, data_file, r_pc, r_today, next_id,
                   day_writes, last_save>>

---------------------------------------------------------------------------
(* save_current_data *)

\* save_current_data lines 170-183 (and 195-196): up to the end of the read
\* of the existing file; io is "ok" or "read_fails"
SaveRead(io) ==
    /\ h_pc = "save_read"
    /\ io = "read_fails" => day_store[today].kind # "absent"
    /\ IF session_messages = <<>>
       THEN /\ SaveReturns
            /\ UNCHANGED <<existing_data, data_file, last_save>>
       ELSE /\ data_file' = today
            /\ IF io = "read_fails" \/ SaveReadRaises(day_store[today])
               THEN /\ last_save' = "error"
                    /\ SaveReturns
                    /\ UNCHANGED existing_data
               ELSE /\ existing_data' = SaveReadData(day_store[today])
                    /\ h_pc' = "save_write"
                    /\ UNCHANGED <<run_pc, last_save>>
    /\ UNCHANGED <<config, last_report, session_messages, session_outliers,
                   is_running, day_store, outlier_store, report_store, today,
                   update, r_pc, r_today, next_id, day_writes, last_json>>

\* save_current_data lines 185-196: merge, rewrite the file, clear the
\* buffer; io is "ok", "open_fails", or "write_fails" / "write_cut" (the
\* file was opened for writing, hence truncated, and the write then raised)
SaveWrite(io) ==
    /\ h_pc = "save_write"
    /\ LET all_data == existing_data \o session_messages
       IN  CASE io = "ok" ->
                  /\ day_store' = [day_store EXCEPT ![data_file] = Written(all_data)]
                  /\ day_writes' = day_writes + 1
                  /\ session_messages' = <<>>
                  /\ last_save' = "saved"
             [] io = "open_fails" ->
                  /\ last_save' = "error"
                  /\ UNCHANGED <<day_store, day_writes, session_messages>>
             [] OTHER ->
                  /\ day_store' = [day_store EXCEPT ![data_file] = FailedWrite(io)]
                  /\ day_writes' = day_writes + 1
                  /\ last_save' = "error"
                  /\ UNCHANGED session_messages
    /\ SaveReturns
    /\ UNCHANGED <<config, last_report, session_outliers, is_running,
                   outlier_store, report_store, today, update, existing_data,
                   data_file, r_pc, r_today, next_id, last_json>>

---------------------------------------------------------------------------
(* generate_daily_report *)

RECURSIVE SumScores(_)
\* sum(scores)
SumScores(msgs) ==
    IF msgs = <<>> THEN 0
    ELSE msgs[1].sentiment_score + SumScores(Tail(msgs))

RECURSIVE MaxScore(_)
\* max(scores)
MaxScore(msgs) ==
    IF Len(msgs) = 1 THEN msgs[1].sentiment_score
    ELSE LET m == MaxScore(Tail(msgs))
         IN  IF msgs[1].sentiment_score >= m THEN msgs[1].sentiment_score ELSE m

RECURSIVE MinScore(_)
\* min(scores)
MinScore(msgs) ==
    IF Len(msgs) = 1 THEN msgs[1].sentiment_score
    ELSE LET m == MinScore(Tail(msgs))
         IN  IF msgs[1].sentiment_score <= m THEN msgs[1].sentiment_score ELSE m

\* round(x, 2) of x = a / b: the nearest integer to a / b, ties to even
\* (a in hundredths of b)
RoundHalfEven(a, b) ==
    LET q == a \div b
        r == a % b
    IN  IF 2 * r < b THEN q
        ELSE IF 2 * r > b THEN q + 1
        ELSE IF q % 2 = 0 THEN q ELSE q + 1

\* round(sum(scores) / len(scores), 2), in hundredths (scores in tenths)
AverageSentiment(msgs) == RoundHalfEven(10 * SumScores(msgs), Len(msgs))

\* a selection that would take every buffered record, whatever its date
TodayMessagesAnyDate(buffer, day) == buffer

\* generate_daily_report lines 205-208: the buffered records of today
TodayMessages(buffer, day) ==
    SelectSeq(buffer, LAMBDA msg : StartsWith(msg.timestamp, day))

\* generate_daily_report line 218: msg["is_outlier"] raises KeyError on a
\* record that has no such key
OutlierKeyError(msgs) ==
    \E i \in 1..Len(msgs) : "is_outlier" \notin DOMAIN msgs[i]

\* generate_daily_report lines 218 and 224 on records that carry the key
OutliersCount(msgs) ==
    Len(SelectSeq(msgs, LAMBDA msg : msg["is_outlier"]))

\* generate_daily_report lines 220-233: the report dictionary
Report(msgs, day, now) ==
    [date |-> day,
     total_messages |-> Len(msgs),
     average_sentiment |-> AverageSentiment(msgs),
     outliers_count |-> OutliersCount(msgs),
     sentiment_distribution |->
        [positive |-> Len(SelectSeq(msgs, LAMBDA m : m.sentiment_score >= PositiveCut)),
         neutral  |-> Len(SelectSeq(msgs, LAMBDA m :
                            NegativeCut < m.sentiment_score
                            /\ m.sentiment_score < PositiveCut)),
         negative |-> Len(SelectSeq(msgs, LAMBDA m : m.sentiment_score <= NegativeCut))],
     top_positive |-> MaxScore(msgs),
     top_negative |-> MinScore(msgs),
     generated_at |-> IsoFormat(now)]

\* schedule_daily_reports lines 244-253 and generate_daily_report lines
\* 200-202: the scheduler thread finds the report due and enters
\* generate_daily_report
ReportBegin ==
    /\ is_running
    /\ r_pc = "idle"
    /\ r_pc' = "scan"
    /\ r_today' = TodayString(today)
    /\ UNCHANGED <<config, last_report, session_messages, session_outliers,
                   is_running, day_store, outlier_store, report_store, today,
                   run_pc, h_pc, update, existing_data, data_file, next_id,
                   day_writes, last_save, last_json>>

\* generate_daily_report lines 204-240: the buffer is read, the statistics
\* are computed and the report is saved, unless there is nothing for today
\* or an exception is caught
ReportFinish(io) ==
    /\ r_pc = "scan"
    /\ run_pc # "returned"
    /\ r_pc' = "idle"
    /\ LET today_messages == TodayMessages(session_messages, r_today)
       IN  IF today_messages = <<>>
           THEN /\ last_report' = "no_messages"
                /\ UNCHANGED <<report_store, last_json>>
           ELSE IF OutlierKeyError(today_messages)
           THEN /\ last_report' = "error"
                /\ UNCHANGED <<report_store, last_json>>
           ELSE /\ report_store' =
                     [report_store EXCEPT ![r_today[1]] =
                        SaveToJson(@, Report(today_messages, r_today, today), io)]
                /\ last_json' = JsonOutcome(io)
                /\ last_report' = IF JsonOutcome(io) = "raised" THEN "error"
                                  ELSE "generated"
    /\ UNCHANGED <<config, session_messages, session_outliers,
                   is_running, day_store, outlier_store, today, run_pc, h_pc,
                   update, existing_data, data_file, r_today, next_id,
                   day_writes, last_save>>

---------------------------------------------------------------------------
(* The clock *)

\* midnight passes: datetime.now() gives the next date
Tick ==
    /\ today + 1 \in Dates
    /\ today' = today + 1
    /\ UNCHANGED <<config, last_report, session_messages, session_outliers,
                   is_running, day_store, outlier_store, report_store, run_pc,
                   h_pc, update, existing_data, data_file, r_pc, r_today,
                   next_id, day_writes, last_save, last_json>>

---------------------------------------------------------------------------
(* Specifications *)

\* what the file system may answer to a write, and to a read
IoOutcomes == {"ok", "open_fails", "write_fails", "write_cut"}
JsonIoOutcomes == IoOutcomes \cup {"mkdir_fails"}
ReadOutcomes == {"ok", "read_fails"}

\* A long session: one monitored chat, one day, texts the classifier scores
\* 2.0, 5.0 or 9.0, enough messages for the 10-count flush
LongUpdates ==
    [text : {"words"}, chat_id : {1}, date : {1},
     cls : {Scored(20), Scored(50), Scored(90)}]

Init == InitWith({1}, FileKinds)

Next ==
    \/ \E ok \in BOOLEAN : Start(ok)
    \/ Stop
    \/ \E u \in LongUpdates : HandleMessage(u, MaxMsgs, MaxOutliers)
    \/ Analyze
    \/ \E io \in JsonIoOutcomes : SaveOutlier(io)
    \/ \E io \in ReadOutcomes : SaveRead(io)
    \/ \E io \in IoOutcomes : SaveWrite(io)
    \/ ReportBegin
    \/ \E io \in JsonIoOutcomes : ReportFinish(io)

Spec == Init /\ [][Next]_vars

\* The long session on a file system that raises no error (the files found
\* at start may still hold anything)
NextNoIOError ==
    \/ \E ok \in BOOLEAN : Start(ok)
    \/ Stop
    \/ \E u \in LongUpdates : HandleMessage(u, MaxMsgs, MaxOutliers)
    \/ Analyze
    \/ SaveOutlier("ok")
    \/ SaveRead("ok")
    \/ SaveWrite("ok")
    \/ ReportBegin
    \/ ReportFinish("ok")

SpecNoIOError == Init /\ [][NextNoIOError]_vars

\* A short session on a file system that raises no error: texts the
\* classifier fails on or scores on either side of every threshold, blank
\* texts, and midnight may pass
ShortUpdates ==
    [text : {"words"}, chat_id : {1}, date : {today},
     cls : {Raises, Scored(20), Scored(50), Scored(90)}]
    \cup [text : {"blank"}, chat_id : {1}, date : {today}, cls : {Raises}]

InitShort == InitWith({1}, FileKinds)

NextShort ==
    \/ \E ok \in BOOLEAN : Start(ok)
    \/ Stop
    \/ \E u \in ShortUpdates : HandleMessage(u, MaxShort, MaxShort)
    \/ Analyze
    \/ SaveOutlier("ok")
    \/ SaveRead("ok")
    \/ SaveWrite("ok")
    \/ ReportBegin
    \/ ReportFinish("ok")
    \/ Tick

SpecShort == InitShort /\ [][NextShort]_vars

\* A session under every kind of configured chat identifier (0, the chat
\* the messages come from, another chat), with updates that carry no text
FilterUpdates ==
    [text : {"none"}, chat_id : {1, 2}, date : {today}, cls : {Raises}]
    \cup [text : {"words"}, chat_id : {1, 2}, date : {today},
          cls : {Scored(50), Scored(90)}]

InitFilter == InitWith({0, 1, 2}, {Absent})

NextFilter ==
    \/ \E ok \in BOOLEAN : Start(ok)
    \/ Stop
    \/ \E u \in FilterUpdates : HandleMessage(u, MaxFilter, MaxFilter)
    \/ Analyze
    \/ \E io \in JsonIoOutcomes : SaveOutlier(io)
    \/ \E io \in ReadOutcomes : SaveRead(io)
    \/ \E io \in IoOutcomes : SaveWrite(io)
    \/ ReportBegin
    \/ \E io \in JsonIoOutcomes : ReportFinish(io)

SpecFilter == InitFilter /\ [][NextFilter]_vars

\* Sessions over the outputs of the classifier: probabilities in percent
\* on the simplex in steps of 10, in steps of 5 where one class has 85 or
\* more, and some vectors that do not sum to 100
Simplex(step) ==
    {[LABEL_0 |-> step * a, LABEL_1 |-> 100 - step * (a + b), LABEL_2 |-> step * b] :
        <<a, b>> \in {ab \in (0 .. 100 \div step) \X (0 .. 100 \div step) :
                        step * (ab[1] + ab[2]) <= 100}}

Probabilities ==
    Simplex(10)
    \cup {p \in Simplex(5) :
            p.LABEL_0 >= 85 \/ p.LABEL_1 >= 85 \/ p.LABEL_2 >= 85}
    \cup [LABEL_0 : {0, 100}, LABEL_1 : {0, 100}, LABEL_2 : {0, 100}]
    \cup {[LABEL_0 |-> 40, LABEL_1 |-> 0, LABEL_2 |-> 75],
          [LABEL_0 |-> 75, LABEL_1 |-> 0, LABEL_2 |-> 40],
          [LABEL_0 |-> 50, LABEL_1 |-> 50, LABEL_2 |-> 50]}

\* np.random.uniform(-0.05, 0.05), in 1/10000
Variations == {-500, 0, 500}

\* a tie of round() goes either way, anything else has one outcome
IsTie(probabilities, variation) ==
    Clamp(Clamp(BaseScore(probabilities)) + variation) % 1000 = 500

Classifications ==
    {Classified(p, v, "down") : p \in Probabilities, v \in Variations}
    \cup {Classified(p, v, "up") :
            <<p, v>> \in {pv \in Probabilities \X Variations :
                            IsTie(pv[1], pv[2])}}

\* the unit vectors: the model is sure of one class
Corners ==
    {p \in Simplex(10) : p.LABEL_0 = 100 \/ p.LABEL_1 = 100 \/ p.LABEL_2 = 100}

AnalyzedUpdates ==
    [text : {"words"}, chat_id : {1}, date : {today},
     cls : Classifications \cup {Raises}]
    \cup [text : {"blank"}, chat_id : {1}, date : {today},
          cls : {Classified(p, v, "down") : p \in Corners, v \in Variations}
                \cup {Raises}]

InitAnalyzer == InitWith({1}, {Absent})

NextAnalyzer ==
    \/ \E ok \in BOOLEAN : Start(ok)
    \/ Stop
    \/ \E u \in AnalyzedUpdates : HandleMessage(u, MaxAnalyzed, MaxAnalyzed)
    \/ Analyze
    \/ SaveOutlier("ok")
    \/ SaveRead("ok")
    \/ SaveWrite("ok")

SpecAnalyzer == InitAnalyzer /\ [][NextAnalyzer]_vars

---------------------------------------------------------------------------

\* Sessions under other thresholds than the defaults, low >= high included,
\* with scores at, next to and away from them
Thresholds == {10, 30, 50, 75, 100}

ScoreGrid == {10, 20, 29, 30, 31, 35, 36, 50, 64, 65, 74, 75, 76, 90, 100}

ConfiguredUpdates ==
    [text : {"words"}, chat_id : {1}, date : {today},
     cls : {Scored(x) : x \in ScoreGrid}
           \cup {Classified(p, v, "down") : p \in Simplex(50), v \in Variations}]

InitThresholds == InitConfigured({1}, {Absent}, Thresholds, Thresholds)

NextThresholds ==
    \/ \E ok \in BOOLEAN : Start(ok)
    \/ Stop
    \/ \E u \in ConfiguredUpdates :
          HandleMessage(u, MaxConfigured, MaxConfigured)
    \/ Analyze
    \/ SaveOutlier("ok")
    \/ SaveRead("ok")
    \/ SaveWrite("ok")

SpecThresholds == InitThresholds /\ [][NextThresholds]_vars

---------------------------------------------------------------------------

\* Sessions over the probabilities next to the tests of _convert_to_scale:
\* vectors in percent whose polarity is at or next to -0.1 or 0.1 (one of
\* the two outer classes a multiple of 0.05), or whose confidence is at or
\* next to 0.7, 0.8 or 0.9 (the smallest class a multiple of 0.1), with
\* the coarse grid
Polarity(p) == p.LABEL_2 - p.LABEL_0

Confidence(p) == Max2(p.LABEL_0, Max2(p.LABEL_1, p.LABEL_2))

BandEdges ==
    {p \in Simplex(1) :
        \/ /\ Polarity(p) \in {-11, -10, 10, 11}
           /\ (p.LABEL_0 % 5 = 0 \/ p.LABEL_2 % 5 = 0)
        \/ /\ Confidence(p) \in {70, 71, 80, 81, 90, 91}
           /\ Min2(p.LABEL_0, Min2(p.LABEL_1, p.LABEL_2)) % 10 = 0}
    \cup Probabilities

BandClassifications ==
    {Classified(p, v, "down") : p \in BandEdges, v \in Variations}
    \cup {Classified(p, v, "up") :
            <<p, v>> \in {pv \in BandEdges \X Variations : IsTie(pv[1], pv[2])}}

BandUpdates ==
    [text : {"words"}, chat_id : {1}, date : {today}, cls : BandClassifications]

InitBands == InitWith({1}, {Absent})

NextBands ==
    \/ \E ok \in BOOLEAN : Start(ok)
    \/ Stop
    \/ \E u \in BandUpdates : HandleMessage(u, MaxAnalyzed, MaxAnalyzed)
    \/ Analyze
    \/ SaveOutlier("ok")
    \/ SaveRead("ok")
    \/ SaveWrite("ok")

SpecBands == InitBands /\ [][NextBands]_vars

---------------------------------------------------------------------------

\* A long session in which the classifier may raise and every store
\* operation may fail; the scheduler thread is left out
FaultyUpdates ==
    [text : {"words"}, chat_id : {1}, date : {1}, cls : {Raises, Scored(90)}]

InitFaulty == InitWith({1}, {Absent, Corrupt})

NextFaulty ==
    \/ \E ok \in BOOLEAN : Start(ok)
    \/ Stop
    \/ \E u \in FaultyUpdates : HandleMessage(u, MaxFaulty, MaxOutliers)
    \/ Analyze
    \/ \E io \in JsonIoOutcomes : SaveOutlier(io)
    \/ \E io \in ReadOutcomes : SaveRead(io)
    \/ \E io \in IoOutcomes : SaveWrite(io)

SpecFaulty == InitFaulty /\ [][NextFaulty]_vars

---------------------------------------------------------------------------
(* Claims *)

\* the number of messages accepted and recorded so far
Accepted == next_id - 1

\* the event loop is between two message handlings
BetweenHandlings == run_pc = "polling" /\ h_pc = "idle"

\* C1: flush trigger. While messages are handled, fewer than 10 accepted
\* messages cause no write to the per-day store; once exactly 10 have been
\* handled the store has been written exactly once and the buffer is
\* empty; and between handlings the buffer length is never a positive
\* multiple of 10 (such a buffer has been appended to the store and
\* cleared).
C1_FlushTrigger ==
    /\ (run_pc = "polling" /\ Accepted < FlushEvery) => day_writes = 0
    /\ (BetweenHandlings /\ Accepted = FlushEvery)
          => (day_writes = 1 /\ session_messages = <<>>)
    /\ BetweenHandlings
          => ~(Len(session_messages) > 0
               /\ Len(session_messages) % FlushEvery = 0)

\* a generation of the daily report ends, having found records of today
ReportGenerated ==
    /\ r_pc = "scan"
    /\ r_pc' = "idle"
    /\ TodayMessages(session_messages, r_today) # <<>>

\* the report file of the generation, before and after it
ReportFileBefore == JsonReadResult(report_store[r_today[1]])
ReportFileAfter == report_store'[r_today[1]]

\* C2: daily report contents. A generation that finds records of today
\* leaves as the last object of the report file a report with
\* total_messages, average_sentiment (2 decimals), outliers_count (the
\* records whose score is at or beyond a configured threshold), the
\* distribution by the 6.5 and 3.5 cut points, top_positive and
\* top_negative of those records.
C2_ReportContents ==
    [][ReportGenerated =>
        LET msgs == TodayMessages(session_messages, r_today)
            n == Len(ReportFileBefore) + 1
        IN  /\ ReportFileAfter.kind = "list"
            /\ Len(ReportFileAfter.data) = n
            /\ LET report == ReportFileAfter.data[n]
               IN  /\ report.total_messages = Len(msgs)
                   /\ report.average_sentiment = AverageSentiment(msgs)
                   /\ report.outliers_count =
                        Len(SelectSeq(msgs, LAMBDA m :
                              \/ m.sentiment_score <= SENTIMENT_THRESHOLD_LOW
                              \/ m.sentiment_score >= SENTIMENT_THRESHOLD_HIGH))
                   /\ report.sentiment_distribution =
                        [positive |-> Len(SelectSeq(msgs, LAMBDA m : m.sentiment_score >= 65)),
                         neutral  |-> Len(SelectSeq(msgs, LAMBDA m :
                                        35 < m.sentiment_score /\ m.sentiment_score < 65)),
                         negative |-> Len(SelectSeq(msgs, LAMBDA m : m.sentiment_score <= 35))]
                   /\ report.top_positive = MaxScore(msgs)
                   /\ report.top_negative = MinScore(msgs)
       ]_vars

\* C3: every generation that finds records of today appends exactly one
\* object to the report file and keeps the objects already there.
C3_ReportAppended ==
    [][ReportGenerated =>
        /\ ReportFileAfter.kind = "list"
        /\ Len(ReportFileAfter.data) = Len(ReportFileBefore) + 1
        /\ SubSeq(ReportFileAfter.data, 1, Len(ReportFileBefore)) = ReportFileBefore
       ]_vars

\* C4: report generation by the timer thread never interleaves with a
\* buffer append or a flush of message handling: while a generation is
\* between reading the date and reading the buffer, no handler step
\* changes the buffer or a store, and no handler is inside its append or
\* store section.
C4_ReportSerialized ==
    [][(r_pc = "scan" /\ r_pc' = "scan")
          => /\ h_pc' = h_pc
             /\ UNCHANGED <<session_messages, day_store, outlier_store>>
       ]_vars

\* C5: inference runs off the event loop, so while the inference of one
\* message is in progress the event loop can begin handling the next
\* inbound message.
C5_InferenceOffLoop ==
    (run_pc = "polling" /\ h_pc = "infer" /\ next_id < MaxMsgs)
        => ENABLED (\E u \in LongUpdates : HandleMessage(u, MaxMsgs, MaxOutliers))

\* the record with this message id is in the per-day store
InDayStore(id) ==
    \E d \in Dates : \E i \in DOMAIN day_store[d].data :
        day_store[d].data[i].message_id = id

\* C6: shutdown flush. When run() has returned, the buffer is empty and
\* every accepted record is in the per-day store (no store write fails).
C6_ShutdownFlush ==
    run_pc = "returned"
        => /\ session_messages = <<>>
           /\ \A id \in 1 .. Accepted : InDayStore(id)

\* C7: a store file holding invalid JSON is treated as an empty store by
\* the write operation and then overwritten with the new data: the flush
\* goes on with no existing records, the outlier write leaves exactly the
\* new record, and the report write leaves exactly the new report.
C7_CorruptStoreOverwritten ==
    [][/\ (h_pc = "save_read" /\ h_pc' # h_pc
              /\ day_store[today].kind = "corrupt")
            => (h_pc' = "save_write" /\ existing_data' = <<>>)
       /\ (h_pc = "outlier" /\ h_pc' # h_pc /\ outlier_store.kind = "corrupt")
            => outlier_store' =
                 JsonList(<<session_messages[Len(session_messages)]>>)
       /\ (ReportGenerated /\ report_store[r_today[1]].kind = "corrupt")
            => (ReportFileAfter.kind = "list" /\ Len(ReportFileAfter.data) = 1)
      ]_vars

\* the buffered records that are not in the per-day store
Unstored ==
    SelectSeq(session_messages, LAMBDA m : ~InDayStore(m.message_id))

C9_OutlierSideChannel ==
    [][/\ (h_pc = "infer" /\ h_pc' # h_pc)
            => LET score ==
                     session_messages'[Len(session_messages')].sentiment_score
               IN  IF \/ score <= SENTIMENT_THRESHOLD_LOW
                      \/ score >= SENTIMENT_THRESHOLD_HIGH
                   THEN h_pc' = "outlier"
                   ELSE h_pc' # "outlier"
       /\ (h_pc = "outlier" /\ h_pc' # h_pc)
            => /\ h_pc' \in {"idle", "save_read"}
               /\ outlier_store' =
                    JsonList(Append(JsonReadResult(outlier_store),
                                    session_messages[Len(session_messages)]))
       /\ (outlier_store' # outlier_store) => h_pc = "outlier"
      ]_vars

\* C9 witness: the tenth accepted message was an outlier: its record is the
\* last of the outlier store although the flush fired in the same
\* handling and emptied the buffer.
C9_Witness ==
    /\ BetweenHandlings
    /\ Accepted = FlushEvery
    /\ session_messages = <<>>
    /\ outlier_store.kind = "list"
    /\ outlier_store.data[Len(outlier_store.data)].message_id = FlushEvery

\* the handler returns at once: nothing of the session or of the stores
\* changes and the classifier is not called
ReturnsAtOnce ==
    /\ h_pc' = "idle"
    /\ UNCHANGED <<session_messages, session_outliers, next_id, day_store,
                   outlier_store, report_store>>

\* C10 as stated: for every configured identifier, a message without text
\* or from a chat other than the configured one is ignored.
C10_MessageFilter ==
    [][\A u \in FilterUpdates :
          (/\ HandleMessage(u, MaxFilter, MaxFilter)
           /\ (u.text = "none" \/ u.chat_id # target_chat_id))
            => ReturnsAtOnce
      ]_vars

\* C10 amended: a message without text is ignored for every configured
\* identifier, and a message from another chat is ignored for every
\* configured identifier other than 0; with identifier 0 the chat test is
\* off and text messages of every chat are handled.
C10_MessageFilterNonZero ==
    [][\A u \in FilterUpdates :
          HandleMessage(u, MaxFilter, MaxFilter)
            => IF \/ u.text = "none"
                  \/ (target_chat_id # 0 /\ u.chat_id # target_chat_id)
               THEN ReturnsAtOnce
               ELSE h_pc' = "infer"
      ]_vars

\* C10 witness: a text message of another chat has been handed to the
\* handler of a bot with a chat configured, and the handler has returned
\* with nothing recorded.
C10_Witness ==
    /\ BetweenHandlings
    /\ target_chat_id # 0
    /\ update.text = "words"
    /\ update.chat_id # target_chat_id
    /\ next_id = 1
    /\ session_messages = <<>>

\* C11: no failure during message handling is fatal to ingestion. A
\* handler step never ends polling; a message whose classification failed
\* is recorded like any other; a failed outlier write or a failed flush
\* is logged and not retried: the handler goes on or returns with the
\* buffer as it was; and between handlings the next message can be
\* handled whatever failed before.
C11_NoFatalFailure ==
    /\ [](BetweenHandlings /\ next_id <= MaxFaulty
            => ENABLED (\E u \in FaultyUpdates :
                          u.cls = Raises /\ HandleMessage(u, MaxFaulty, MaxOutliers)))
    /\ [][(run_pc = "polling" /\ h_pc # "idle" /\ h_pc' # h_pc)
            => /\ run_pc' = "polling"
               /\ is_running' = TRUE
               /\ day_writes' <= day_writes + 1
               /\ h_pc = "infer"
                    => /\ Len(session_messages') = Len(session_messages) + 1
                       /\ session_messages'[Len(session_messages')].message_id
                            = next_id
                       /\ h_pc' \in {"idle", "outlier", "save_read"}
               /\ (h_pc = "outlier" /\ last_json' # "ok")
                    => /\ h_pc' \in {"idle", "save_read"}
                       /\ UNCHANGED <<session_messages, next_id>>
               /\ (h_pc \in {"save_read", "save_write"} /\ last_save' = "error")
                    => /\ h_pc' = "idle"
                       /\ UNCHANGED <<session_messages, next_id>>
         ]_vars

\* C11 witness: the outlier write failed, the flush at the tenth message
\* failed, the classifier raised on the eleventh message, and that
\* message is in the buffer with the ten before it.
C11_Witness ==
    /\ BetweenHandlings
    /\ last_json # "ok"
    /\ session_outliers = 1
    /\ last_save = "error"
    /\ ~update.cls.ok
    /\ Len(session_messages) = 11
    /\ session_messages[11].message_id = 11

\* a handler step that leaves the classification and records the message
Analyzed == h_pc = "infer" /\ h_pc' # h_pc

\* the record such a step appends
NewRecord == session_messages'[Len(session_messages')]

\* C12: fail-open classification. When the classifier raises on a text
\* that is not blank, the result is exactly (5.0, NEUTRAL) and the message
\* is recorded in the buffer with it.
C12_FailOpen ==
    [][(Analyzed /\ update.text = "words" /\ ~update.cls.ok)
          => /\ Len(session_messages') = Len(session_messages) + 1
             /\ NewRecord.message_id = next_id
             /\ NewRecord.sentiment_score = 50
             /\ NewRecord.sentiment_label = "NEUTRAL"
      ]_vars

\* C12 witness: a text on which the classifier raised is in the buffer as
\* record 1 with score 5.0 and label NEUTRAL.
C12_Witness ==
    /\ BetweenHandlings
    /\ update.text = "words"
    /\ ~update.cls.ok
    /\ Len(session_messages) = 1
    /\ session_messages[1].sentiment_score = 50
    /\ session_messages[1].sentiment_label = "NEUTRAL"

\* C13: a blank text gives score exactly 5.0 and label NEUTRAL whatever
\* the classifier and the normalizer would give on it: neither is run, no
\* jitter is applied.
C13_BlankNeutral ==
    [][(Analyzed /\ update.text = "blank")
          => /\ NewRecord.sentiment_score = 50
             /\ NewRecord.sentiment_label = "NEUTRAL"
      ]_vars

\* C13 witness: a blank text is recorded with 5.0 NEUTRAL although the
\* classifier would have given another score and the jitter is not zero.
C13_Witness ==
    /\ BetweenHandlings
    /\ update.text = "blank"
    /\ update.cls.ok
    /\ update.cls.variation # 0
    /\ SentimentScore(update.cls) # 50
    /\ Len(session_messages) = 1
    /\ session_messages[1].sentiment_score = 50
    /\ session_messages[1].sentiment_label = "NEUTRAL"

\* the scores of the records of a sequence are in [1.0, 10.0]
ScoresInRange(records) ==
    \A i \in DOMAIN records :
        records[i].sentiment_score >= 10 /\ records[i].sentiment_score <= 100

\* C14: score range. Whatever the probabilities (summing to 1 or not) and
\* the jitter, the normalized score is in [1.0, 10.0]; and so is the score
\* of every record in the buffer, the per-day store and the outlier store.
C14_ScoreRange ==
    /\ (h_pc = "infer" /\ update.cls.ok)
          => (SentimentScore(update.cls) >= 10 /\ SentimentScore(update.cls) <= 100)
    /\ ScoresInRange(session_messages)
    /\ \A d \in Dates : ScoresInRange(day_store[d].data)
    /\ ScoresInRange(outlier_store.data)

\* C14 witness: the model was sure of the negative class and the jitter
\* was -0.05: the record is stored, in both stores, with score 1.0.
C14_Witness ==
    /\ run_pc = "returned"
    /\ update.cls.ok
    /\ update.text = "words"
    /\ update.cls.probabilities.LABEL_0 = 100
    /\ update.cls.variation = -500
    /\ outlier_store.kind = "list"
    /\ outlier_store.data[1].sentiment_score = 10
    /\ day_store[1].kind = "list"
    /\ day_store[1].data[1].sentiment_score = 10

CutLabel(score) ==
    IF score <= 35 THEN "NEGATIVE"
    ELSE IF score >= 65 THEN "POSITIVE"
    ELSE "NEUTRAL"

\* C16: the label of a classified message comes from its final score by
\* the fixed cut points, under every setting of the outlier thresholds.
C16_LabelFromFinalScore ==
    [][(Analyzed /\ update.text = "words" /\ update.cls.ok)
          => /\ NewRecord.sentiment_score = SentimentScore(update.cls)
             /\ NewRecord.sentiment_label = CutLabel(NewRecord.sentiment_score)
      ]_vars

\* C16 witness: under thresholds 5.0 / 5.0, where every score is an
\* outlier, a message of final score 6.4 is labelled NEUTRAL.
C16_Witness ==
    /\ BetweenHandlings
    /\ SENTIMENT_THRESHOLD_LOW = 50
    /\ SENTIMENT_THRESHOLD_HIGH = 50
    /\ session_outliers = 1
    /\ Len(session_messages) = 1
    /\ session_messages[1].sentiment_score = 64
    /\ session_messages[1].sentiment_label = "NEUTRAL"

\* the update being handled carries probabilities that sum to 1
Normalised ==
    /\ update.text = "words"
    /\ update.cls.ok
    /\ "probabilities" \in DOMAIN update.cls
    /\ update.cls.probabilities.LABEL_0 + update.cls.probabilities.LABEL_1
         + update.cls.probabilities.LABEL_2 = 100

\* C17: probabilities with p_n >= 0.9 (hence p_p <= 0.1), p_n = 0.9
\* included, give label NEGATIVE and a score <= 3.5 under every jitter.
C17_SureNegative ==
    [][(Analyzed /\ Normalised /\ update.cls.probabilities.LABEL_0 >= 90)
          => /\ NewRecord.sentiment_label = "NEGATIVE"
             /\ NewRecord.sentiment_score <= 35
      ]_vars

\* C17 witness: p_n = 0.9 exactly, p_p = 0.1 and jitter +0.05 have given
\* a NEGATIVE record.
C17_Witness ==
    /\ BetweenHandlings
    /\ Normalised
    /\ update.cls.probabilities.LABEL_0 = 90
    /\ update.cls.probabilities.LABEL_2 = 10
    /\ update.cls.variation = 500
    /\ Len(session_messages) = 1
    /\ session_messages[1].sentiment_label = "NEGATIVE"

\* C18: probabilities with p_p >= 0.9 (hence p_n <= 0.1), p_p = 0.9
\* included, give label POSITIVE and a score >= 6.5 under every jitter.
C18_SurePositive ==
    [][(Analyzed /\ Normalised /\ update.cls.probabilities.LABEL_2 >= 90)
          => /\ NewRecord.sentiment_label = "POSITIVE"
             /\ NewRecord.sentiment_score >= 65
      ]_vars

\* C18 witness: p_p = 0.9 exactly, p_n = 0.1 and jitter -0.05 have given
\* a POSITIVE record.
C18_Witness ==
    /\ BetweenHandlings
    /\ Normalised
    /\ update.cls.probabilities.LABEL_2 = 90
    /\ update.cls.probabilities.LABEL_0 = 10
    /\ update.cls.variation = -500
    /\ Len(session_messages) = 1
    /\ session_messages[1].sentiment_label = "POSITIVE"


\* C19: a successful flush leaves in the per-day file, as read back from
\* its JSON text, exactly what the file held before followed by the
\* buffered records in arrival order, every field equal to the one that
\* was written; on an absent or blank file that is the buffer itself.
C19_DayStoreRoundTrip ==
    [][(last_save' = "saved" /\ day_writes' = day_writes + 1)
        => /\ day_store'[data_file].kind = "list"
           /\ day_store'[data_file].data
                = SaveReadData(day_store[data_file]) \o session_messages
           /\ (SaveReadData(day_store[data_file]) = <<>>
                 => day_store'[data_file].data = session_messages)
           /\ \A d \in DOMAIN day_store :
                 d # data_file => day_store'[d] = day_store[d]]_vars

\* a file that held the legacy record was flushed to with ten records of
\* several scores
C19_Witness ==
    /\ BetweenHandlings
    /\ last_save = "saved"
    /\ \E d \in DOMAIN day_store :
          /\ day_store[d].kind = "list"
          /\ Len(day_store[d].data) = 11
          /\ day_store[d].data[1].message_id = 0
          /\ \A i \in 2..11 : day_store[d].data[i].message_id = i - 1
          /\ \E i, j \in 2..11 :
                day_store[d].data[i].sentiment_score
                    # day_store[d].data[j].sentiment_score

\* C20: when generate_daily_report finds no buffered record whose timestamp
\* starts with the current date (the buffer may be empty, or hold records
\* of an earlier date), it logs that there are no messages and writes no
\* report: the report files, the buffer, the per-day files and the outlier
\* file are left as they were.
C20_NoReportWithoutRecords ==
    [][(r_pc = "scan" /\ r_pc' = "idle"
            /\ \A i \in 1..Len(session_messages) :
                  ~StartsWith(session_messages[i].timestamp, r_today))
        => /\ last_report' = "no_messages"
           /\ UNCHANGED <<report_store, session_messages, session_outliers,
                          day_store, outlier_store>>]_vars

\* a report was asked for after midnight, while the buffer held records
\* of the day before only
C20_Witness ==
    /\ last_report = "no_messages"
    /\ r_pc = "idle"
    /\ session_messages # <<>>
    /\ \A i \in 1..Len(session_messages) :
          ~StartsWith(session_messages[i].timestamp, r_today)

\* the update being handled carries probabilities
HasProbabilities ==
    /\ update.text = "words"
    /\ update.cls.ok
    /\ "probabilities" \in DOMAIN update.cls

\* C22: piecewise banding. For probabilities that sum to 1 the base score
\* (before the jitter) is the formula of the branch that polarity and
\* confidence select, and lies in the band stated for that branch.
C22_PiecewiseBanding ==
    (h_pc = "infer" /\ Normalised) =>
        LET p    == update.cls.probabilities
            pol  == p.LABEL_2 - p.LABEL_0
            conf == Max2(p.LABEL_0, Max2(p.LABEL_1, p.LABEL_2))
            base == BaseScore(p)
        IN  /\ (pol < -10 /\ conf > 90)
                 => base = 10000 + (pol + 100) * 150 /\ base >= 10000 /\ base <= 25000
            /\ (pol < -10 /\ conf <= 90 /\ conf > 70)
                 => base = 15000 + (pol + 100) * 150 /\ base >= 15000 /\ base <= 30000
            /\ (pol < -10 /\ conf <= 70)
                 => base = 25000 + (pol + 100) * 100 /\ base >= 25000 /\ base <= 35000
            /\ (pol > 10 /\ conf > 90)
                 => base = 85000 + pol * 150 /\ base >= 85000 /\ base <= 100000
            /\ (pol > 10 /\ conf <= 90 /\ conf > 70)
                 => base = 70000 + pol * 150 /\ base >= 70000 /\ base <= 85000
            /\ (pol > 10 /\ conf <= 70)
                 => base = 65000 + pol * 50 /\ base >= 65000 /\ base <= 70000

\* C22 witness: the classifier has given p_n = 0.9 exactly with p_p = 0:
\* the confidence is not above 0.9, the base score is 1.65.
C22_Witness ==
    /\ h_pc = "infer"
    /\ Normalised
    /\ update.cls.probabilities.LABEL_0 = 90
    /\ update.cls.probabilities.LABEL_2 = 0
    /\ BaseScore(update.cls.probabilities) = 16500

\* C23: the neutral band. For any probabilities with |polarity| <= 0.1 the
\* base score is exactly 5.0 when the confidence is above 0.8, and
\* 5.0 + polarity*0.8 + (0.5 - confidence)*0.6 otherwise; for the vector
\* (0, 1, 0) and jitter 0 the score is exactly 5.0.
C23_NeutralBand ==
    (h_pc = "infer" /\ HasProbabilities) =>
        LET p    == update.cls.probabilities
            pol  == p.LABEL_2 - p.LABEL_0
            conf == Max2(p.LABEL_0, Max2(p.LABEL_1, p.LABEL_2))
            base == BaseScore(p)
        IN  /\ (pol >= -10 /\ pol <= 10 /\ conf > 80) => base = 50000
            /\ (pol >= -10 /\ pol <= 10 /\ conf <= 80)
                 => base = 50000 + pol * 80 + (50 - conf) * 60
            /\ (p.LABEL_0 = 0 /\ p.LABEL_1 = 100 /\ p.LABEL_2 = 0
                  /\ update.cls.variation = 0)
                 => SentimentScore(update.cls) = 50

\* C23 witness: polarity 0.1 exactly with confidence 0.9 (the override
\* applies, although 5.0 + polarity*0.8 is 5.08) is being scored.
C23_Witness ==
    /\ h_pc = "infer"
    /\ HasProbabilities
    /\ update.cls.probabilities.LABEL_0 = 0
    /\ update.cls.probabilities.LABEL_1 = 90
    /\ update.cls.probabilities.LABEL_2 = 10
    /\ BaseScore(update.cls.probabilities) = 50000

\* C25: the label agrees with the polarity band. For probabilities that
\* sum to 1, every jitter and either direction of a rounding tie, the
\* recorded label is NEGATIVE when polarity < -0.1, POSITIVE when
\* polarity > 0.1 and NEUTRAL otherwise, and the recorded score is on the
\* matching side of the cut points 3.5 and 6.5.
C25_LabelAgreesWithPolarity ==
    [][(Analyzed /\ Normalised)
          => LET pol == update.cls.probabilities.LABEL_2
                          - update.cls.probabilities.LABEL_0
             IN  /\ pol < -10
                      => /\ NewRecord.sentiment_label = "NEGATIVE"
                         /\ NewRecord.sentiment_score <= 35
                 /\ pol > 10
                      => /\ NewRecord.sentiment_label = "POSITIVE"
                         /\ NewRecord.sentiment_score >= 65
                 /\ (pol >= -10 /\ pol <= 10)
                      => /\ NewRecord.sentiment_label = "NEUTRAL"
                         /\ NewRecord.sentiment_score > 35
                         /\ NewRecord.sentiment_score < 65
      ]_vars

\* C25 witness: polarity 0.11 with confidence 0.5 and jitter -0.05 (base
\* score 6.555, the lowest of the positive branch here) was recorded as
\* 6.5 POSITIVE.
C25_Witness ==
    /\ BetweenHandlings
    /\ Normalised
    /\ update.cls.probabilities.LABEL_2 - update.cls.probabilities.LABEL_0 = 11
    /\ update.cls.probabilities.LABEL_1 = 39
    /\ update.cls.variation = -500
    /\ Len(session_messages) = 1
    /\ session_messages[1].sentiment_score = 65
    /\ session_messages[1].sentiment_label = "POSITIVE"

\* how many times the record with this message id is in a sequence
Copies(records, id) ==
    Cardinality({i \in DOMAIN records : records[i].message_id = id})

\* how many times it is in the per-day files
StoredCopies(id) ==
    LET RECURSIVE Sum(_)
        Sum(ds) == IF ds = {} THEN 0
                   ELSE LET d == CHOOSE x \in ds : TRUE
                        IN  Copies(day_store[d].data, id) + Sum(ds \ {d})
    IN  Sum(Dates)

\* C24: record conservation. Whatever flush writes succeed or fail, every
\* accepted record is exactly once in the buffer or in the per-day store,
\* never in both and never twice; and a failed flush leaves the buffer as
\* it was.
C24_RecordConservation ==
    /\ [](\A id \in 1 .. Accepted :
            Copies(session_messages, id) + StoredCopies(id) = 1)
    /\ [][last_save' = "error" /\ last_save # "error"
            => session_messages' = session_messages]_vars

\* C21: the report counts the buffer only. A generation that runs after
\* the 10-record flush has cleared the buffer, and finds records of today
\* in the buffer, leaves a report whose total_messages is the number of
\* today's records then buffered, fewer than the messages accepted.
C21_ReportCountsBufferOnly ==
    [][(ReportGenerated /\ day_writes > 0 /\ run_pc = "polling")
        => /\ ReportFileAfter.kind = "list"
           /\ ReportFileAfter.data[Len(ReportFileAfter.data)].total_messages
                = Len(TodayMessages(session_messages, r_today))
           /\ Len(TodayMessages(session_messages, r_today)) < Accepted
       ]_vars
====
